---- MODULE Spec2Model ----
(***************************************************************************)
(* Model of gm-ffi's debug bridge (src/src/tcp_server.rs): the worker      *)
(* thread spawned by TcpServer::new, the two mpsc channels, the TCP peer   *)
(* and the methods of the TcpServer handle.                                *)
(*                                                                         *)
(* Strings are sequences of Unicode code points, the socket carries        *)
(* sequences of bytes (0..255); as_bytes and from_utf8 convert between the *)
(* two as UTF-8 does for code points below 2048.                           *)
(***************************************************************************)
EXTENDS Integers, Sequences, FiniteSets, TLC

(* ------------------------------ bounds --------------------------------- *)
MaxConns == 2        \* connections the peer side opens in one run
MaxSends == 2        \* send_message() calls in one run
MaxPeerWrites == 1   \* writes of the peer in one run
MaxZeroReads == 1    \* reads that return Ok(0) in one run
MaxWriters == 2      \* Bridge::writer() calls in one run
MaxWrites == 2       \* writes of one BridgeWriter

(* ------------------------- program constants --------------------------- *)
BUFFER_SIZE == 1024  \* let mut buffer = [0; 1024]
BRIDGE_LEN == 256    \* the backing buffer of a Bridge: vec![0u32; 256]

NUL == 0
Ping == <<112, 105, 110, 103>>          \* "ping"
KillFrame == <<107, 105, 108, 108, 0>>   \* b"kill\0"

(* ------------------------------- data ---------------------------------- *)
\* enum Outgoing
OutMessage(id, text) == [kind |-> "Message", text |-> text, id |-> id]
Kill == [kind |-> "Kill", text |-> <<>>, id |-> 0]

\* enum Incoming
InMessage(text) == [kind |-> "Message", text |-> text]
Connected == [kind |-> "Connected", text |-> <<>>]
Disconnected == [kind |-> "Disconnected", text |-> <<>>]

\* texts the caller passes to send_message(): "h\u{e9}" (three bytes in UTF-8)
Texts == { <<104, 233>> }

\* what the peer writes in one write: "ping\0", "ping\0a\0", "a\0b\0", and a
\* byte that is no UTF-8
PeerChunks ==
  { <<112, 105, 110, 103, 0>>, <<112, 105, 110, 103, 0, 97, 0>>,
    <<97, 0, 98, 0>>, <<255>> }

Min(a, b) == IF a < b THEN a ELSE b

(* ---------------------------- conversions ------------------------------ *)
\* str::as_bytes: the UTF-8 encoding of a string
RECURSIVE as_bytes(_)
as_bytes(s) ==
  IF s = <<>> THEN <<>>
  ELSE LET c == Head(s)
       IN (IF c < 128 THEN <<c>>
           ELSE <<192 + (c \div 64), 128 + (c % 64)>>) \o as_bytes(Tail(s))

\* String::from_utf8: the decoded string, or an error
RECURSIVE from_utf8(_)
from_utf8(b) ==
  IF b = <<>> THEN [ok |-> TRUE, s |-> <<>>]
  ELSE LET b0 == Head(b)
       IN IF b0 < 128
          THEN LET r == from_utf8(Tail(b))
               IN [ok |-> r.ok, s |-> <<b0>> \o r.s]
          ELSE IF b0 >= 194 /\ b0 <= 223 /\ Len(b) >= 2
                  /\ b[2] >= 128 /\ b[2] <= 191
          THEN LET r == from_utf8(Tail(Tail(b)))
               IN [ok |-> r.ok, s |-> <<(b0 - 192) * 64 + (b[2] - 128)>> \o r.s]
          ELSE [ok |-> FALSE, s |-> <<>>]

\* str::trim_end_matches('\0')
RECURSIVE trim_end_matches(_)
trim_end_matches(s) ==
  IF s # <<>> /\ s[Len(s)] = NUL
  THEN trim_end_matches(SubSeq(s, 1, Len(s) - 1))
  ELSE s

(* ------------------------------- state --------------------------------- *)
VARIABLES
  wpc,        \* where the worker thread is
  panicCause, \* why the worker thread died ("none" while it lives)
  conn,       \* number of connections accepted so far; the id of `stream`
  streams,    \* ids of the streams the worker holds open
  peer,       \* remote end of `stream`: "none", "open", "closed", "reset"
  inbuf,      \* bytes the peer wrote that the worker has not read yet
  wire,       \* wire[c]: bytes the worker wrote on connection c
  outgoing,   \* channel of Outgoing (handle -> worker)
  incoming,   \* channel of Incoming (worker -> handle)
  connected,  \* TcpServer.connected
  hpc,        \* where the caller is with the handle
  \* history, read by the properties only
  sent,       \* sent[id]: the circumstances of the id-th send_message()
  written,    \* the frames written, in order: [id, conn]
  emitted,    \* every Incoming the worker sent, in order
  yielded,    \* every text read_messages() yielded, in order
  goneReads,  \* reads that found the peer gone (Ok(0) or ConnectionReset)
  zeroReads,  \* reads that returned Ok(0)
  peerWrites, \* writes of the peer
  killed,     \* circumstances of shutdown(): whether it was called, the id of
              \* the message queued right before Kill (0: none), the connection
              \* whose loop the worker was in with the peer there (0: none)
  seen,       \* kind of the last Connected/Disconnected the handle received
  discarded,  \* Incoming::Message items that wait_to_connect() dropped
  waited,     \* the last method of the handle to return was wait_to_connect()
  \* src/src/lib.rs: Bridge and BridgeWriter
  bridge,     \* Bridge.0.buffer: index -> u32 (<<>>: no Bridge was made)
  cursor,     \* BridgeWriter.1 of the live writer (-1: there is no writer)
  writers,    \* number of Bridge::writer() calls
  base,       \* the buffer as it was when the live writer was made
  wlog        \* the values the live writer wrote, in order

vars == <<wpc, panicCause, conn, streams, peer, inbuf, wire, outgoing, incoming,
          connected, hpc, sent, written, emitted, yielded, goneReads, zeroReads,
          peerWrites, killed, seen, discarded, waited,
          bridge, cursor, writers, base, wlog>>

workerVars == <<wpc, panicCause, conn, streams, peer, inbuf, wire, written,
                emitted, goneReads, zeroReads>>
handleVars == <<connected, hpc, sent, yielded, killed, seen, discarded, waited>>

bridgeVars == <<bridge, cursor, writers, base, wlog>>
serverVars == <<workerVars, handleVars, outgoing, incoming, peerWrites>>

\* the Receiver<Incoming> is dropped with the TcpServer
ReceiverDropped == hpc \in {"shut", "panicked"}
\* the worker's Receiver<Outgoing> and Sender<Incoming> are dropped when it dies
WorkerDead == wpc = "dead"
StreamOpen == conn \in streams

\* TcpServer::new returns, the worker thread starts
InitServer ==
  /\ wpc = "Listening"
  /\ panicCause = "none"
  /\ conn = 0
  /\ streams = {}
  /\ peer = "none"
  /\ inbuf = <<>>
  /\ wire = [c \in 1..(MaxConns + 1) |-> <<>>]
  /\ outgoing = <<>>
  /\ incoming = <<>>
  /\ connected = FALSE
  /\ hpc = "idle"
  /\ sent = <<>>
  /\ written = <<>>
  /\ emitted = <<>>
  /\ yielded = <<>>
  /\ goneReads = 0
  /\ zeroReads = 0
  /\ peerWrites = 0
  /\ killed = [called |-> FALSE, last |-> 0, conn |-> 0]
  /\ seen = "none"
  /\ discarded = 0
  /\ waited = FALSE

\* no Bridge is in use
Init ==
  /\ InitServer
  /\ bridge = <<>>
  /\ cursor = -1
  /\ writers = 0
  /\ base = <<>>
  /\ wlog = <<>>

(* ------------------------------ worker --------------------------------- *)
\* the worker goes on to `next`
Goto(next) ==
  /\ wpc' = next
  /\ UNCHANGED <<panicCause, streams>>

\* a panic of the worker thread: unwinding drops `stream`, `rx` (with what is
\* queued in it) and `tx`
Panic(cause) ==
  /\ wpc' = "dead"
  /\ panicCause' = cause
  /\ streams' = {}
  /\ peer' = "none"
  /\ inbuf' = <<>>
  /\ outgoing' = <<>>

\* tx.send(ev).unwrap(), then go to `next`
TxSend(ev, next) ==
  IF ReceiverDropped
  THEN /\ Panic("send")
       /\ UNCHANGED <<incoming, emitted>>
  ELSE /\ incoming' = Append(incoming, ev)
       /\ emitted' = Append(emitted, ev)
       /\ Goto(next)
       /\ UNCHANGED <<peer, outgoing>>

\* TcpListener::bind(address).unwrap().accept().expect(..): a peer connects
Accept ==
  /\ wpc = "Listening"
  /\ conn < MaxConns
  /\ conn' = conn + 1
  /\ streams' = streams \cup {conn + 1}
  /\ peer' = "open"
  /\ inbuf' = <<>>
  /\ wpc' = "Flush"
  /\ UNCHANGED <<panicCause, wire, outgoing, incoming, written, emitted,
                 goneReads, zeroReads, peerWrites, handleVars, bridgeVars>>

\* bind or accept fails
AcceptFail ==
  /\ wpc = "Listening"
  /\ Panic("bind")
  /\ UNCHANGED <<conn, wire, incoming, written, emitted, goneReads, zeroReads,
                 peerWrites, handleVars, bridgeVars>>

\* Flush without the clearing loop
FlushKeeps ==
  /\ wpc = "Flush"
  /\ Goto("EmitConnected")
  /\ UNCHANGED <<conn, peer, inbuf, wire, outgoing, incoming, written, emitted,
                 goneReads, zeroReads, peerWrites, handleVars, bridgeVars>>

\* Flush that receives one command only
FlushOne ==
  /\ wpc = "Flush"
  /\ outgoing' = IF outgoing = <<>> THEN <<>> ELSE Tail(outgoing)
  /\ Goto("EmitConnected")
  /\ UNCHANGED <<conn, peer, inbuf, wire, incoming, written, emitted, goneReads,
                 zeroReads, peerWrites, handleVars, bridgeVars>>

\* while rx.try_recv().is_ok() {}: everything queued is received and dropped
Flush ==
  /\ wpc = "Flush"
  /\ outgoing' = <<>>
  /\ Goto("EmitConnected")
  /\ UNCHANGED <<conn, peer, inbuf, wire, incoming, written, emitted, goneReads,
                 zeroReads, peerWrites, handleVars, bridgeVars>>

\* tx.send(Incoming::Connected).unwrap()
EmitConnected ==
  /\ wpc = "EmitConnected"
  /\ TxSend(Connected, "Read")
  /\ wpc' # "dead" => inbuf' = inbuf
  /\ UNCHANGED <<conn, wire, written, goneReads, zeroReads, peerWrites,
                 handleVars, bridgeVars>>

\* ReadOk that goes on with an empty message when the bytes are no UTF-8
ReadOkLossy(data, rest) ==
  LET r == from_utf8(data)
      message == trim_end_matches(r.s)
  IN /\ IF r.ok /\ message = Ping
        THEN /\ Goto("Drain")
             /\ UNCHANGED <<peer, outgoing, incoming, emitted>>
        ELSE TxSend(InMessage(message), "Drain")
     /\ wpc' # "dead" => inbuf' = rest

\* the Ok(bytes_read) arm of the read: data = buffer[..bytes_read], rest = the
\* bytes that stay in the socket
ReadOk(data, rest) ==
  LET r == from_utf8(data)
      message == trim_end_matches(r.s)
  IN IF ~r.ok
     THEN /\ Panic("utf8")
          /\ UNCHANGED <<incoming, emitted>>
     ELSE /\ IF message = Ping
             THEN /\ Goto("Drain")
                  /\ UNCHANGED <<peer, outgoing, incoming, emitted>>
             ELSE TxSend(InMessage(message), "Drain")
          /\ wpc' # "dead" => inbuf' = rest

\* the number of bytes a read returns when avail bytes have arrived: all of
\* them, as far as the buffer goes
ReadLens(avail) == {Min(avail, BUFFER_SIZE)}

\* stream.read(&mut buffer) returns Ok(n), n > 0: the bytes that have arrived
ReadData ==
  /\ wpc = "Read"
  /\ inbuf # <<>>
  /\ \E n \in ReadLens(Len(inbuf)) :
       ReadOk(SubSeq(inbuf, 1, n), SubSeq(inbuf, n + 1, Len(inbuf)))
  /\ UNCHANGED <<conn, wire, written, goneReads, zeroReads, peerWrites,
                 handleVars, bridgeVars>>

\* stream.read(&mut buffer) returns Ok(0): the peer closed its end
ReadZero ==
  /\ wpc = "Read"
  /\ inbuf = <<>>
  /\ peer = "closed"
  /\ zeroReads < MaxZeroReads
  /\ ReadOk(<<>>, <<>>)
  /\ zeroReads' = zeroReads + 1
  /\ goneReads' = goneReads + 1
  /\ UNCHANGED <<conn, wire, written, peerWrites, handleVars, bridgeVars>>

\* Err(WouldBlock)
ReadWouldBlock ==
  /\ wpc = "Read"
  /\ inbuf = <<>>
  /\ peer = "open"
  /\ Goto("Drain")
  /\ UNCHANGED <<conn, peer, inbuf, wire, outgoing, incoming, written, emitted,
                 goneReads, zeroReads, peerWrites, handleVars, bridgeVars>>

\* Err(ConnectionReset): send Disconnected and break
ReadReset ==
  /\ wpc = "Read"
  /\ peer = "reset"
  /\ TxSend(Disconnected, "Shutdown")
  /\ wpc' # "dead" => inbuf' = inbuf
  /\ goneReads' = goneReads + 1
  /\ UNCHANGED <<conn, wire, written, zeroReads, peerWrites, handleVars, bridgeVars>>

\* Err(kind) of any other kind: panic!("Unexpected error")
ReadError ==
  /\ wpc = "Read"
  /\ Panic("read")
  /\ UNCHANGED <<conn, wire, incoming, written, emitted, goneReads, zeroReads,
                 peerWrites, handleVars, bridgeVars>>

\* Frame without the null byte
FrameNoNul(text) == as_bytes(text)

\* the bytes the Outgoing::Message arm writes: the text, then the null byte
Frame(text) == as_bytes(text) \o <<NUL>>

\* DrainMessage that takes the newest command of the queue
DrainMessageLifo ==
  /\ wpc = "Drain"
  /\ outgoing # <<>>
  /\ outgoing[Len(outgoing)].kind = "Message"
  /\ LET m == outgoing[Len(outgoing)]
     IN /\ wire' = [wire EXCEPT ![conn] = @ \o Frame(m.text)]
        /\ written' = Append(written, [id |-> m.id, conn |-> conn])
        /\ outgoing' = SubSeq(outgoing, 1, Len(outgoing) - 1)
        /\ Goto("Drain")
        /\ UNCHANGED <<peer, inbuf>>
  /\ UNCHANGED <<conn, incoming, emitted, goneReads, zeroReads, peerWrites,
                 handleVars, bridgeVars>>

\* rx.try_recv() yields Outgoing::Message: two write_all calls
\* (both succeed, the first fails, or the second fails)
DrainMessage ==
  /\ wpc = "Drain"
  /\ outgoing # <<>>
  /\ Head(outgoing).kind = "Message"
  /\ LET m == Head(outgoing)
     IN \/ /\ wire' = [wire EXCEPT ![conn] = @ \o Frame(m.text)]
           /\ written' = Append(written, [id |-> m.id, conn |-> conn])
           /\ outgoing' = Tail(outgoing)
           /\ Goto("Drain")
           /\ UNCHANGED <<peer, inbuf>>
        \/ /\ Panic("write")
           /\ UNCHANGED <<wire, written>>
        \/ /\ wire' = [wire EXCEPT ![conn] = @ \o as_bytes(m.text)]
           /\ Panic("write")
           /\ UNCHANGED written
  /\ UNCHANGED <<conn, incoming, emitted, goneReads, zeroReads, peerWrites,
                 handleVars, bridgeVars>>

\* DrainKill that takes Kill from wherever it is in the queue
DrainKillEarly ==
  /\ wpc = "Drain"
  /\ \E i \in 1..Len(outgoing) : outgoing[i].kind = "Kill"
  /\ \/ /\ wire' = [wire EXCEPT ![conn] = @ \o KillFrame]
        /\ outgoing' = SelectSeq(outgoing, LAMBDA c : c.kind # "Kill")
        /\ Goto("Shutdown")
        /\ UNCHANGED <<peer, inbuf>>
     \/ /\ Panic("write")
        /\ UNCHANGED wire
  /\ UNCHANGED <<conn, incoming, written, emitted, goneReads, zeroReads,
                 peerWrites, handleVars, bridgeVars>>

\* rx.try_recv() yields Outgoing::Kill: write b"kill\0", end_loop = true, break
DrainKill ==
  /\ wpc = "Drain"
  /\ outgoing # <<>>
  /\ Head(outgoing).kind = "Kill"
  /\ \/ /\ wire' = [wire EXCEPT ![conn] = @ \o KillFrame]
        /\ outgoing' = Tail(outgoing)
        /\ Goto("Shutdown")
        /\ UNCHANGED <<peer, inbuf>>
     \/ /\ Panic("write")
        /\ UNCHANGED wire
  /\ UNCHANGED <<conn, incoming, written, emitted, goneReads, zeroReads,
                 peerWrites, handleVars, bridgeVars>>

\* rx.try_recv() is Err: the while-let ends with end_loop = false
DrainEmpty ==
  /\ wpc = "Drain"
  /\ outgoing = <<>>
  /\ Goto("Read")
  /\ UNCHANGED <<conn, peer, inbuf, wire, outgoing, incoming, written, emitted,
                 goneReads, zeroReads, peerWrites, handleVars, bridgeVars>>

\* StreamShutdown that keeps the stream open
StreamShutdownLeaks ==
  /\ wpc = "Shutdown"
  /\ \/ /\ wpc' = "Listening"
        /\ peer' = "none"
        /\ inbuf' = <<>>
        /\ UNCHANGED <<panicCause, outgoing, streams>>
     \/ Panic("shutdown")
  /\ UNCHANGED <<conn, wire, incoming, written, emitted, goneReads, zeroReads,
                 peerWrites, handleVars, bridgeVars>>

\* stream.shutdown(Shutdown::Both).unwrap(); the stream is dropped and the
\* outer loop starts over
StreamShutdown ==
  /\ wpc = "Shutdown"
  /\ \/ /\ streams' = streams \ {conn}
        /\ wpc' = "Listening"
        /\ peer' = "none"
        /\ inbuf' = <<>>
        /\ UNCHANGED <<panicCause, outgoing>>
     \/ Panic("shutdown")
  /\ UNCHANGED <<conn, wire, incoming, written, emitted, goneReads, zeroReads,
                 peerWrites, handleVars, bridgeVars>>

(* ------------------------------- peer ---------------------------------- *)
\* the peer writes to its socket
PeerWrite ==
  /\ StreamOpen
  /\ peer = "open"
  /\ peerWrites < MaxPeerWrites
  /\ \E chunk \in PeerChunks : inbuf' = inbuf \o chunk
  /\ peerWrites' = peerWrites + 1
  /\ UNCHANGED <<wpc, panicCause, conn, streams, peer, wire, outgoing, incoming,
                 written, emitted, goneReads, zeroReads, handleVars, bridgeVars>>

\* the peer closes its socket
PeerClose ==
  /\ StreamOpen
  /\ peer = "open"
  /\ peer' = "closed"
  /\ UNCHANGED <<wpc, panicCause, conn, streams, inbuf, wire, outgoing, incoming,
                 written, emitted, goneReads, zeroReads, peerWrites, handleVars, bridgeVars>>

\* the connection is reset
PeerReset ==
  /\ StreamOpen
  /\ peer \in {"open", "closed"}
  /\ peer' = "reset"
  /\ UNCHANGED <<wpc, panicCause, conn, streams, inbuf, wire, outgoing, incoming,
                 written, emitted, goneReads, zeroReads, peerWrites, handleVars, bridgeVars>>

(* ------------------------------ handle --------------------------------- *)
\* TcpServer::is_connected
is_connected == connected

\* TcpServer::send_message: outgoing.send(Outgoing::Message(msg)).unwrap()
send_message ==
  /\ hpc = "idle"
  /\ Len(sent) < MaxSends
  /\ IF WorkerDead
     THEN /\ hpc' = "panicked"
          /\ UNCHANGED <<outgoing, sent>>
     ELSE /\ \E text \in Texts :
               /\ outgoing' = Append(outgoing, OutMessage(Len(sent) + 1, text))
               /\ sent' = Append(sent, [text |-> text, flag |-> is_connected,
                                        conn |-> conn])
          /\ hpc' = "idle"
  /\ incoming' = IF WorkerDead THEN <<>> ELSE incoming
  /\ waited' = FALSE
  /\ UNCHANGED <<connected, yielded, killed, seen, discarded, peerWrites,
                 workerVars, bridgeVars>>

\* TcpServer::shutdown: outgoing.send(Outgoing::Kill).unwrap(); the worker
\* runs on until self is dropped
shutdown ==
  /\ hpc = "idle"
  /\ IF WorkerDead
     THEN /\ hpc' = "panicked"
          /\ UNCHANGED <<outgoing, killed>>
     ELSE /\ outgoing' = Append(outgoing, Kill)
          /\ hpc' = "shutting"
          /\ killed' = [called |-> TRUE,
                        last |-> IF outgoing # <<>> /\ outgoing[Len(outgoing)].kind = "Message"
                                 THEN outgoing[Len(outgoing)].id ELSE 0,
                        conn |-> IF wpc \in {"Read", "Drain"} /\ peer = "open"
                                 THEN conn ELSE 0]
  /\ incoming' = IF WorkerDead THEN <<>> ELSE incoming
  /\ waited' = FALSE
  /\ UNCHANGED <<connected, sent, yielded, seen, discarded, peerWrites,
                 workerVars, bridgeVars>>

\* the end of shutdown(self): self goes out of scope, and the Receiver of the
\* events with it
shutdown_drop ==
  /\ hpc = "shutting"
  /\ hpc' = "shut"
  /\ incoming' = <<>>
  /\ UNCHANGED <<connected, sent, yielded, killed, seen, discarded, waited,
                 peerWrites, workerVars, bridgeVars, outgoing>>

\* Messages that lets every item through
MessagesAll(q) == [i \in 1..Len(q) |-> q[i].text]

\* the texts of the Incoming::Message items of a sequence of Incoming
RECURSIVE Messages(_)
Messages(q) ==
  IF q = <<>> THEN <<>>
  ELSE (IF Head(q).kind = "Message" THEN <<Head(q).text>> ELSE <<>>)
       \o Messages(Tail(q))

\* `connected` after the filter_map closure has seen every item of q
RECURSIVE Mirror(_, _)
Mirror(q, c) ==
  IF q = <<>> THEN c
  ELSE Mirror(Tail(q), CASE Head(q).kind = "Connected" -> TRUE
                         [] Head(q).kind = "Disconnected" -> FALSE
                         [] OTHER -> c)

\* kind of the last Connected/Disconnected of q, k if there is none
RECURSIVE LastSeen(_, _)
LastSeen(q, k) ==
  IF q = <<>> THEN k
  ELSE IF q[Len(q)].kind \in {"Connected", "Disconnected"} THEN q[Len(q)].kind
  ELSE LastSeen(SubSeq(q, 1, Len(q) - 1), k)

\* TcpServer::read_messages, iterated until try_iter() ends
read_messages ==
  /\ hpc = "idle"
  /\ incoming' = <<>>
  /\ yielded' = yielded \o Messages(incoming)
  /\ connected' = Mirror(incoming, connected)
  /\ seen' = LastSeen(incoming, seen)
  /\ waited' = FALSE
  /\ UNCHANGED <<hpc, sent, killed, discarded, peerWrites, workerVars, bridgeVars, outgoing>>

\* index of the first Incoming::Connected of q, 0 if there is none
FirstConnected(q) ==
  IF \E i \in 1..Len(q) : q[i].kind = "Connected"
  THEN CHOOSE i \in 1..Len(q) :
         /\ q[i].kind = "Connected"
         /\ \A j \in 1..(i - 1) : q[j].kind # "Connected"
  ELSE 0

\* TcpServer::wait_to_connect, from the call to its return: incoming.iter()
\* blocks while the channel is empty and ends when the worker's Sender is gone
wait_to_connect ==
  /\ hpc = "idle"
  /\ LET i == FirstConnected(incoming)
         taken == IF i # 0 THEN SubSeq(incoming, 1, i) ELSE incoming
     IN /\ IF i # 0
           THEN /\ incoming' = SubSeq(incoming, i + 1, Len(incoming))
                /\ connected' = TRUE
           ELSE /\ WorkerDead
                /\ incoming' = <<>>
                /\ connected' = connected
        /\ seen' = LastSeen(taken, seen)
        /\ discarded' = discarded + Len(Messages(taken))
  /\ waited' = TRUE
  /\ UNCHANGED <<hpc, sent, yielded, killed, peerWrites, workerVars, bridgeVars, outgoing>>

(* ---------------------------- specification ---------------------------- *)
Worker ==
  \/ Accept \/ AcceptFail \/ Flush \/ EmitConnected
  \/ ReadData \/ ReadZero \/ ReadWouldBlock \/ ReadReset \/ ReadError
  \/ DrainMessage \/ DrainKill \/ DrainEmpty \/ StreamShutdown

Peer == PeerWrite \/ PeerClose \/ PeerReset

Handle ==
  \/ send_message \/ shutdown \/ shutdown_drop \/ read_messages \/ wait_to_connect

Next == Worker \/ Peer \/ Handle

Spec == Init /\ [][Next]_vars

(* ------------------------- Bridge (src/src/lib.rs) --------------------- *)
\* f32 values are [sign, exp, frac]: 4.2 and -22.2
F32Values ==
  { [sign |-> 0, exp |-> 129, frac |-> 419430],
    [sign |-> 1, exp |-> 131, frac |-> 3250586] }

\* u32 values are [hi, lo], the two 16-bit halves: 18 and u32::MAX
U32Values == { [hi |-> 0, lo |-> 18], [hi |-> 65535, lo |-> 65535] }

\* f32::to_bits: sign (1 bit), exponent (8 bits), fraction (23 bits)
to_bits(f) ==
  [hi |-> f.sign * 32768 + f.exp * 128 + (f.frac \div 65536),
   lo |-> f.frac % 65536]

\* Bridge::new over a zeroed buffer of BRIDGE_LEN elements
InitBridge ==
  /\ InitServer
  /\ bridge = [i \in 0..(BRIDGE_LEN - 1) |-> [hi |-> 0, lo |-> 0]]
  /\ cursor = -1
  /\ writers = 0
  /\ base = <<>>
  /\ wlog = <<>>

\* writer whose cursor starts where the last writer stopped
writer_resumes ==
  /\ writers < MaxWriters
  /\ writers' = writers + 1
  /\ cursor' = IF cursor = -1 THEN 0 ELSE cursor
  /\ base' = bridge
  /\ wlog' = <<>>
  /\ UNCHANGED <<bridge, serverVars>>

\* Bridge::writer: BridgeWriter::new(self) = Self(bridge, 0); the borrow of
\* the Bridge ends the life of the writer before
writer ==
  /\ writers < MaxWriters
  /\ writers' = writers + 1
  /\ cursor' = 0
  /\ base' = bridge
  /\ wlog' = <<>>
  /\ UNCHANGED <<bridge, serverVars>>

\* self.0 .0[self.1] = bits; self.1 += 1 (the index panics past the end)
Store(bits) ==
  /\ cursor >= 0
  /\ cursor < BRIDGE_LEN
  /\ bridge' = [bridge EXCEPT ![cursor] = bits]
  /\ cursor' = cursor + 1

\* BridgeWriter::write_u32
write_u32 ==
  /\ Len(wlog) < MaxWrites
  /\ \E value \in U32Values :
       /\ Store(value)
       /\ wlog' = Append(wlog, [type |-> "u32", value |-> value])
  /\ UNCHANGED <<writers, base, serverVars>>

\* BridgeWriter::write_f32
write_f32 ==
  /\ Len(wlog) < MaxWrites
  /\ \E value \in F32Values :
       /\ Store(to_bits(value))
       /\ wlog' = Append(wlog, [type |-> "f32", value |-> value])
  /\ UNCHANGED <<writers, base, serverVars>>

NextBridge == writer \/ write_u32 \/ write_f32

SpecBridge == InitBridge /\ [][NextBridge]_vars

(* ----------------------------- properties ------------------------------ *)
\* causes of death that the environment chooses: a failing system call or a
\* peer that sends no UTF-8
IOFaults == {"bind", "read", "write", "shutdown", "utf8"}

\* number of items of kind k in a sequence of Incoming
Count(q, k) == Cardinality({i \in 1..Len(q) : q[i].kind = k})

\* t occurs in s as a contiguous subsequence
Contains(s, t) ==
  \E k \in 0..(Len(s) - Len(t)) : SubSeq(s, k + 1, k + Len(t)) = t

\* the frame of message id was written on connection c
Written(id, c) == \E i \in 1..Len(written) : written[i] = [id |-> id, conn |-> c]

\* C1: as long as the caller keeps the handle and no system call fails, the
\* worker has emitted one PeerConnected per accepted connection (once it is
\* past the emit) and one PeerDisconnected per read that found the peer gone,
\* so that every dropped connection has brought it back towards Listening.
C1_ReconnectLiveness ==
  (hpc = "idle" /\ panicCause \notin IOFaults) =>
    /\ wpc # "dead"
    /\ wpc \notin {"Flush", "EmitConnected"} => Count(emitted, "Connected") = conn
    /\ Count(emitted, "Disconnected") = goneReads

\* C2: a read in Connected that finds the peer gone (reset, or closed: a read
\* of zero bytes) and does not kill the worker emits exactly PeerDisconnected,
\* no Message, and leaves the connection loop for the way back to Listening.
C2_PeerGoneDisconnects ==
  [][(/\ wpc = "Read"
      /\ inbuf = <<>>
      /\ peer \in {"closed", "reset"}
      /\ wpc' \notin {"Read", "dead"})
     => (/\ emitted' = Append(emitted, Disconnected)
         /\ wpc' = "Shutdown")]_vars

\* C3: a message passed to send_message() while is_connected() was false is
\* written to no connection accepted after that call.
C3_StaleMessageDrop ==
  \A i \in 1..Len(written) :
    ~sent[written[i].id].flag => written[i].conn <= sent[written[i].id].conn

\* a message sent while is_connected() was false has met a later connection,
\* which is past its flush and has nothing left to write
C3_Witness ==
  /\ wpc = "Drain"
  /\ outgoing = <<>>
  /\ \E id \in 1..Len(sent) :
       /\ ~sent[id].flag
       /\ sent[id].conn < conn
       /\ ~Written(id, conn)

\* C4: no text that read_messages() yields is or contains the heartbeat "ping".
C4_HeartbeatSuppressed ==
  \A i \in 1..Len(yielded) : ~Contains(yielded[i], Ping)

\* C5: a Message command drained in Connected whose writes succeed adds to the
\* wire of the connection exactly the UTF-8 bytes of its text and one 0x00 byte:
\* what is added ends in 0x00 and decodes, without that byte, to the text.
C5_Framing ==
  [][(/\ wpc = "Drain"
      /\ outgoing # <<>>
      /\ Head(outgoing).kind = "Message"
      /\ outgoing' = Tail(outgoing)
      /\ wpc' = "Drain")
     => LET old == wire[conn]
            new == wire'[conn]
            added == SubSeq(new, Len(old) + 1, Len(new))
        IN /\ Len(new) > Len(old)
           /\ SubSeq(new, 1, Len(old)) = old
           /\ added[Len(added)] = 0
           /\ from_utf8(SubSeq(added, 1, Len(added) - 1))
                = [ok |-> TRUE, s |-> Head(outgoing).text]
           /\ \A c \in DOMAIN wire : c # conn => wire'[c] = wire[c]]_vars

\* the frame of "h\u{e9}" is on the wire of a connection
C5_Witness == \E c \in DOMAIN wire : wire[c] = <<104, 195, 169, 0>>

\* C6: two messages "a\0b\0" that arrive in one read are yielded as "a" and "b",
\* never as the merged text "a\0b".
C6_Coalescing ==
  \A i \in 1..Len(yielded) : yielded[i] # <<97, 0, 98>>

\* C7: when shutdown() directly follows a send_message() made while the worker
\* was in its connection loop, the worker does not close that connection, with
\* the peer still there and no system call failing, before the frame of that
\* message is written.
C7_OrderedShutdown ==
  [][(/\ killed.last # 0
      /\ killed.conn \in streams
      /\ killed.conn \notin streams'
      /\ peer = "open"
      /\ panicCause' \notin IOFaults)
     => Written(killed.last, killed.conn)']_vars

\* C8: once shutdown() has returned, the worker thread has terminated.
C8_ShutdownJoins == hpc = "shut" => WorkerDead

\* C9: a Terminate (Kill) command leaves the command queue of a living worker
\* only by being acted on: the worker ends its connection loop.
C9_TerminateObserved ==
  [][(/\ \E i \in 1..Len(outgoing) : outgoing[i].kind = "Kill"
      /\ \A i \in 1..Len(outgoing') : outgoing'[i].kind # "Kill"
      /\ wpc' # "dead")
     => (wpc = "Drain" /\ wpc' = "Shutdown")]_vars

\* C10: the worker holds at most one open stream, and none while it listens
\* for the next peer.
C10_OneConnection ==
  /\ Cardinality(streams) <= 1
  /\ wpc = "Listening" => streams = {}

\* the worker holds its second connection, the first one being closed
C10_Witness == conn = 2 /\ streams = {2}

\* the texts of the Message items of q
TextsOf(q) ==
  LET m == SelectSeq(q, LAMBDA e : e.kind = "Message")
  IN [i \in 1..Len(m) |-> m[i].text]

\* a is b with some items left out
RECURSIVE IsSubseq(_, _)
IsSubseq(a, b) ==
  IF a = <<>> THEN TRUE
  ELSE IF b = <<>> THEN FALSE
  ELSE IF Head(a) = Head(b) THEN IsSubseq(Tail(a), Tail(b))
  ELSE IsSubseq(a, Tail(b))

\* C11: on one connection the frames appear in the order of the send_message()
\* calls, and no message is written twice on whatever connection.
C11_CommandOrdering ==
  \A i, j \in 1..Len(written) :
    i < j => /\ written[i].id # written[j].id
             /\ written[i].conn = written[j].conn => written[i].id < written[j].id

\* two frames were written on one connection
C11_Witness ==
  /\ Len(written) = 2
  /\ written[1].conn = written[2].conn

\* C12: while the caller holds the handle, the texts read_messages() has yielded
\* are texts of emitted Message events in emission order, each event is yielded
\* once, dropped by wait_to_connect() or still queued, and without such drops
\* the yielded texts followed by the queued ones are exactly the emitted ones;
\* no text is yielded for PeerConnected or PeerDisconnected.
C12_ReadMessages ==
  hpc = "idle" =>
    /\ IsSubseq(yielded, TextsOf(emitted))
    /\ Len(yielded) + discarded + Len(TextsOf(incoming)) = Len(TextsOf(emitted))
    /\ discarded = 0 => yielded \o TextsOf(incoming) = TextsOf(emitted)

\* a message was yielded, and the connection events around it were not
C12_Witness ==
  /\ hpc = "idle"
  /\ Len(yielded) = 1
  /\ incoming = <<>>
  /\ Count(emitted, "Connected") = 2
  /\ Count(emitted, "Disconnected") = 1

\* C13: is_connected() is true exactly when the last connection event the
\* handle received was PeerConnected.
C13_ConnectedFlag == is_connected <=> seen = "Connected"

\* C14: when wait_to_connect() has returned, is_connected() is true.
C14_WaitToConnect == waited => is_connected

\* the value whose bits are b
from_bits(b) ==
  [sign |-> b.hi \div 32768, exp |-> (b.hi % 32768) \div 128,
   frac |-> (b.hi % 128) * 65536 + b.lo]

\* C15: the k-th write of a writer (k from 0) has put the 32 bits of its value
\* at index k, every index the writer has not reached is as it was when the
\* writer was made; so each writer starts at index 0.
C15_BridgeWriterCursor ==
  cursor # -1 =>
    \A i \in DOMAIN bridge :
      IF i < Len(wlog)
      THEN IF wlog[i + 1].type = "u32"
           THEN bridge[i] = wlog[i + 1].value
           ELSE from_bits(bridge[i]) = wlog[i + 1].value
      ELSE bridge[i] = base[i]

\* the second writer has overwritten both values of the first
C15_Witness ==
  /\ writers = 2
  /\ Len(wlog) = 2
  /\ base[0] # [hi |-> 0, lo |-> 0]
  /\ bridge[0] # base[0]
  /\ bridge[1] # base[1]

\* the Kill command was drained: its frame is on a wire
KillDrained ==
  \E c \in DOMAIN wire :
    /\ Len(wire[c]) >= Len(KillFrame)
    /\ SubSeq(wire[c], Len(wire[c]) - Len(KillFrame) + 1, Len(wire[c])) = KillFrame

\* C16: once the worker has drained Kill it closes the stream and is gone: it
\* is never again listening or in a connection.
C16_TerminatedFinal == KillDrained => wpc \in {"Shutdown", "dead"}

\* C17: once the worker is past the clearing loop of a connection, no Message
\* that was sent before that connection was accepted is left in the queue, and
\* none was written on it.
C17_StaleFlush ==
  /\ wpc \notin {"Listening", "Flush"} =>
       \A i \in 1..Len(outgoing) :
         outgoing[i].kind = "Message" => sent[outgoing[i].id].conn = conn
  /\ \A i \in 1..Len(written) : sent[written[i].id].conn = written[i].conn

\* a message left over from the first connection was dropped on the second
C17_Witness ==
  /\ wpc = "EmitConnected"
  /\ conn = 2
  /\ \E id \in 1..Len(sent) : sent[id].conn = 1 /\ ~Written(id, 1)

\* C18: a write of a Message command that fails on a reset connection makes
\* the worker emit PeerDisconnected and leave for Listening; it does not die.
C18_WriteReset ==
  [][(/\ wpc = "Drain"
      /\ peer = "reset"
      /\ outgoing # <<>>
      /\ Head(outgoing).kind = "Message"
      /\ wpc' # "Drain")
     => (/\ wpc' = "Shutdown"
         /\ emitted' = Append(emitted, Disconnected))]_vars

\* C19: a read of bytes that are no UTF-8, or a read error of another kind
\* than would-block and reset, kills the worker without an event; a dead worker
\* stays dead, emits nothing, writes nothing and accepts nothing; a would-block
\* read emits nothing and goes on to the commands of the same connection.
C19_FatalErrors ==
  [][/\ (/\ wpc = "Read"
         /\ wpc' # "Read"
         /\ \/ inbuf # <<>> /\ ~from_utf8(inbuf).ok /\ peer # "reset"
            \/ panicCause' = "read")
        => (wpc' = "dead" /\ emitted' = emitted /\ incoming' = incoming)
     /\ wpc = "dead"
        => (/\ wpc' = "dead"
            /\ emitted' = emitted
            /\ wire' = wire
            /\ conn' = conn
            /\ streams' = {})
     /\ (wpc = "Read" /\ inbuf = <<>> /\ peer = "open" /\ wpc' \notin {"Read", "dead"})
        => (wpc' = "Drain" /\ emitted' = emitted /\ conn' = conn)]_vars

\* the worker died of bytes that are no UTF-8, and the caller went on
C19_Witness ==
  /\ panicCause = "utf8"
  /\ hpc = "panicked"

\* C20: the first event is PeerConnected; PeerConnected follows nothing but
\* PeerDisconnected; Message and PeerDisconnected follow PeerConnected or
\* Message.
C20_EventStreamShape ==
  \A i \in 1..Len(emitted) :
    IF emitted[i].kind = "Connected"
    THEN i = 1 \/ emitted[i - 1].kind = "Disconnected"
    ELSE i > 1 /\ emitted[i - 1].kind \in {"Connected", "Message"}

\* C21: the step in which the worker takes Kill from the queue of a connection
\* and lives appends "kill" and one 0x00 to the wire of that connection, with no
\* command left in front of Kill and the stream still open, and goes on to the
\* shutdown of the stream; if the write fails nothing is written; once the kill
\* frame is on a wire no frame is written any more.
C21_KillNotification ==
  [][/\ (/\ wpc = "Drain"
         /\ Count(outgoing, "Kill") > 0
         /\ Count(outgoing', "Kill") = 0
         /\ wpc' # "dead")
        => (/\ wire' = [wire EXCEPT ![conn] = @ \o <<107, 105, 108, 108, 0>>]
            /\ outgoing = <<Kill>>
            /\ outgoing' = <<>>
            /\ written' = written
            /\ conn \in streams
            /\ streams' = streams
            /\ wpc' = "Shutdown")
     /\ (/\ wpc = "Drain"
         /\ outgoing # <<>>
         /\ Head(outgoing).kind = "Kill"
         /\ wpc' = "dead")
        => wire' = wire
     /\ KillDrained => (wire' = wire /\ written' = written)]_vars

\* the frame of a message queued before Kill, then the kill frame, are on the
\* wire of a stream that is still open
C21_Witness ==
  /\ wpc = "Shutdown"
  /\ conn \in streams
  /\ killed.last # 0
  /\ wire[conn] = Frame(sent[killed.last].text) \o KillFrame

====
